---- MODULE Spec2Model ----
(***************************************************************************)
(* Model of query_to_structured_output_with_geographic_locations.py:       *)
(* the regex span extractors, the intent classifier, search_best_places,   *)
(* structured_output and the module's loop over the test queries.          *)
(* A str is modelled as the sequence of its code points; the regular       *)
(* expressions are modelled by what Python's re does with them.  The HTTP  *)
(* services and the entity tagger answer nondeterministically.             *)
(***************************************************************************)
EXTENDS Integers, Sequences, FiniteSets, TLC

\* A str is the sequence of its code points.  None where a str is expected is
\* a sequence that is no str, None where a dict is expected a record that is
\* no dict, None where a number is expected a number that is no length
None == << -1 >>
Null == [none |-> TRUE]
NoneNumber == -1

\* ------------------------------------------------------------------------
\* The str a literal denotes
\* ------------------------------------------------------------------------
\* the characters of the code points 32 to 95 and 97 to 126, in this order
Ascii32 == " !\"#$%&'()*+,-./0123456789:;<=>?@ABCDEFGHIJKLMNOPQRSTUVWXYZ[\\]^_"
Ascii97 == "abcdefghijklmnopqrstuvwxyz{|}~"

CharsOf(s) == { SubSeq(s, i, i) : i \in 1..Len(s) }
Position(s, c) == CHOOSE i \in 1..Len(s) : SubSeq(s, i, i) = c

\* ord()
Ord ==
    [c \in CharsOf(Ascii32) \cup CharsOf(Ascii97) |->
        IF c \in CharsOf(Ascii32) THEN 31 + Position(Ascii32, c)
        ELSE 96 + Position(Ascii97, c)]

\* the code points of a literal, by halves
RECURSIVE Text(_)
Text(s) ==
    IF Len(s) = 0 THEN << >>
    ELSE IF Len(s) = 1 THEN << Ord[s] >>
    ELSE LET h == Len(s) \div 2
         IN  Text(SubSeq(s, 1, h)) \o Text(SubSeq(s, h + 1, Len(s)))

RECURSIVE Texts(_)
Texts(literals) ==
    IF literals = << >> THEN << >>
    ELSE << Text(Head(literals)) >> \o Texts(Tail(literals))

\* the literals of the patterns and of the code
Lit ==
    [from_sp |-> Text("from "), sp_to |-> Text(" to"), to_sp |-> Text("to "),
     sp_to_sp |-> Text(" to "), comma |-> Text(","), dot |-> Text("."),
     sp_with |-> Text(" with"), sp_but |-> Text(" but"), sp_and |-> Text(" and"),
     and_ |-> Text("and"), bar |-> Text("|"), blank |-> Text(" "),
     current_location |-> Text("current location"),
     rest_stops_every |-> Text("rest stops every ")]

\* ------------------------------------------------------------------------
\* The character tables of the interpreter (Unicode 14.0), as ranges of code
\* points <<first, last>>
\* ------------------------------------------------------------------------
\* \w of a str pattern: what str.isalnum() accepts, and the underscore
WordRanges ==
    { <<48, 57>>, <<65, 90>>, <<95, 95>>, <<97, 122>>, <<170, 170>>, <<178, 179>>,
      <<181, 181>>, <<185, 186>>, <<188, 190>>, <<192, 214>>, <<216, 246>>, <<248, 705>>,
      <<710, 721>>, <<736, 740>>, <<748, 748>>, <<750, 750>>, <<880, 884>>, <<886, 887>>,
      <<890, 893>>, <<895, 895>>, <<902, 902>>, <<904, 906>>, <<908, 908>>, <<910, 929>>,
      <<931, 1013>>, <<1015, 1153>>, <<1162, 1327>>, <<1329, 1366>>, <<1369, 1369>>,
      <<1376, 1416>>, <<1488, 1514>>, <<1519, 1522>>, <<1568, 1610>>, <<1632, 1641>>,
      <<1646, 1647>>, <<1649, 1747>>, <<1749, 1749>>, <<1765, 1766>>, <<1774, 1788>>,
      <<1791, 1791>>, <<1808, 1808>>, <<1810, 1839>>, <<1869, 1957>>, <<1969, 1969>>,
      <<1984, 2026>>, <<2036, 2037>>, <<2042, 2042>>, <<2048, 2069>>, <<2074, 2074>>,
      <<2084, 2084>>, <<2088, 2088>>, <<2112, 2136>>, <<2144, 2154>>, <<2160, 2183>>,
      <<2185, 2190>>, <<2208, 2249>>, <<2308, 2361>>, <<2365, 2365>>, <<2384, 2384>>,
      <<2392, 2401>>, <<2406, 2415>>, <<2417, 2432>>, <<2437, 2444>>, <<2447, 2448>>,
      <<2451, 2472>>, <<2474, 2480>>, <<2482, 2482>>, <<2486, 2489>>, <<2493, 2493>>,
      <<2510, 2510>>, <<2524, 2525>>, <<2527, 2529>>, <<2534, 2545>>, <<2548, 2553>>,
      <<2556, 2556>>, <<2565, 2570>>, <<2575, 2576>>, <<2579, 2600>>, <<2602, 2608>>,
      <<2610, 2611>>, <<2613, 2614>>, <<2616, 2617>>, <<2649, 2652>>, <<2654, 2654>>,
      <<2662, 2671>>, <<2674, 2676>>, <<2693, 2701>>, <<2703, 2705>>, <<2707, 2728>>,
      <<2730, 2736>>, <<2738, 2739>>, <<2741, 2745>>, <<2749, 2749>>, <<2768, 2768>>,
      <<2784, 2785>>, <<2790, 2799>>, <<2809, 2809>>, <<2821, 2828>>, <<2831, 2832>>,
      <<2835, 2856>>, <<2858, 2864>>, <<2866, 2867>>, <<2869, 2873>>, <<2877, 2877>>,
      <<2908, 2909>>, <<2911, 2913>>, <<2918, 2927>>, <<2929, 2935>>, <<2947, 2947>>,
      <<2949, 2954>>, <<2958, 2960>>, <<2962, 2965>>, <<2969, 2970>>, <<2972, 2972>>,
      <<2974, 2975>>, <<2979, 2980>>, <<2984, 2986>>, <<2990, 3001>>, <<3024, 3024>>,
      <<3046, 3058>>, <<3077, 3084>>, <<3086, 3088>>, <<3090, 3112>>, <<3114, 3129>>,
      <<3133, 3133>>, <<3160, 3162>>, <<3165, 3165>>, <<3168, 3169>>, <<3174, 3183>>,
      <<3192, 3198>>, <<3200, 3200>>, <<3205, 3212>>, <<3214, 3216>>, <<3218, 3240>>,
      <<3242, 3251>>, <<3253, 3257>>, <<3261, 3261>>, <<3293, 3294>>, <<3296, 3297>>,
      <<3302, 3311>>, <<3313, 3314>>, <<3332, 3340>>, <<3342, 3344>>, <<3346, 3386>>,
      <<3389, 3389>>, <<3406, 3406>>, <<3412, 3414>>, <<3416, 3425>>, <<3430, 3448>>,
      <<3450, 3455>>, <<3461, 3478>>, <<3482, 3505>>, <<3507, 3515>>, <<3517, 3517>>,
      <<3520, 3526>>, <<3558, 3567>>, <<3585, 3632>>, <<3634, 3635>>, <<3648, 3654>>,
      <<3664, 3673>>, <<3713, 3714>>, <<3716, 3716>>, <<3718, 3722>>, <<3724, 3747>>,
      <<3749, 3749>>, <<3751, 3760>>, <<3762, 3763>>, <<3773, 3773>>, <<3776, 3780>>,
      <<3782, 3782>>, <<3792, 3801>>, <<3804, 3807>>, <<3840, 3840>>, <<3872, 3891>>,
      <<3904, 3911>>, <<3913, 3948>>, <<3976, 3980>>, <<4096, 4138>>, <<4159, 4169>>,
      <<4176, 4181>>, <<4186, 4189>>, <<4193, 4193>>, <<4197, 4198>>, <<4206, 4208>>,
      <<4213, 4225>>, <<4238, 4238>>, <<4240, 4249>>, <<4256, 4293>>, <<4295, 4295>>,
      <<4301, 4301>>, <<4304, 4346>>, <<4348, 4680>>, <<4682, 4685>>, <<4688, 4694>>,
      <<4696, 4696>>, <<4698, 4701>>, <<4704, 4744>>, <<4746, 4749>>, <<4752, 4784>>,
      <<4786, 4789>>, <<4792, 4798>>, <<4800, 4800>>, <<4802, 4805>>, <<4808, 4822>>,
      <<4824, 4880>>, <<4882, 4885>>, <<4888, 4954>>, <<4969, 4988>>, <<4992, 5007>>,
      <<5024, 5109>>, <<5112, 5117>>, <<5121, 5740>>, <<5743, 5759>>, <<5761, 5786>>,
      <<5792, 5866>>, <<5870, 5880>>, <<5888, 5905>>, <<5919, 5937>>, <<5952, 5969>>,
      <<5984, 5996>>, <<5998, 6000>>, <<6016, 6067>>, <<6103, 6103>>, <<6108, 6108>>,
      <<6112, 6121>>, <<6128, 6137>>, <<6160, 6169>>, <<6176, 6264>>, <<6272, 6276>>,
      <<6279, 6312>>, <<6314, 6314>>, <<6320, 6389>>, <<6400, 6430>>, <<6470, 6509>>,
      <<6512, 6516>>, <<6528, 6571>>, <<6576, 6601>>, <<6608, 6618>>, <<6656, 6678>>,
      <<6688, 6740>>, <<6784, 6793>>, <<6800, 6809>>, <<6823, 6823>>, <<6917, 6963>>,
      <<6981, 6988>>, <<6992, 7001>>, <<7043, 7072>>, <<7086, 7141>>, <<7168, 7203>>,
      <<7232, 7241>>, <<7245, 7293>>, <<7296, 7304>>, <<7312, 7354>>, <<7357, 7359>>,
      <<7401, 7404>>, <<7406, 7411>>, <<7413, 7414>>, <<7418, 7418>>, <<7424, 7615>>,
      <<7680, 7957>>, <<7960, 7965>>, <<7968, 8005>>, <<8008, 8013>>, <<8016, 8023>>,
      <<8025, 8025>>, <<8027, 8027>>, <<8029, 8029>>, <<8031, 8061>>, <<8064, 8116>>,
      <<8118, 8124>>, <<8126, 8126>>, <<8130, 8132>>, <<8134, 8140>>, <<8144, 8147>>,
      <<8150, 8155>>, <<8160, 8172>>, <<8178, 8180>>, <<8182, 8188>>, <<8304, 8305>>,
      <<8308, 8313>>, <<8319, 8329>>, <<8336, 8348>>, <<8450, 8450>>, <<8455, 8455>>,
      <<8458, 8467>>, <<8469, 8469>>, <<8473, 8477>>, <<8484, 8484>>, <<8486, 8486>>,
      <<8488, 8488>>, <<8490, 8493>>, <<8495, 8505>>, <<8508, 8511>>, <<8517, 8521>>,
      <<8526, 8526>>, <<8528, 8585>>, <<9312, 9371>>, <<9450, 9471>>, <<10102, 10131>>,
      <<11264, 11492>>, <<11499, 11502>>, <<11506, 11507>>, <<11517, 11517>>, <<11520, 11557>>,
      <<11559, 11559>>, <<11565, 11565>>, <<11568, 11623>>, <<11631, 11631>>, <<11648, 11670>>,
      <<11680, 11686>>, <<11688, 11694>>, <<11696, 11702>>, <<11704, 11710>>, <<11712, 11718>>,
      <<11720, 11726>>, <<11728, 11734>>, <<11736, 11742>>, <<11823, 11823>>, <<12293, 12295>>,
      <<12321, 12329>>, <<12337, 12341>>, <<12344, 12348>>, <<12353, 12438>>, <<12445, 12447>>,
      <<12449, 12538>>, <<12540, 12543>>, <<12549, 12591>>, <<12593, 12686>>, <<12690, 12693>>,
      <<12704, 12735>>, <<12784, 12799>>, <<12832, 12841>>, <<12872, 12879>>, <<12881, 12895>>,
      <<12928, 12937>>, <<12977, 12991>>, <<13312, 19903>>, <<19968, 42124>>, <<42192, 42237>>,
      <<42240, 42508>>, <<42512, 42539>>, <<42560, 42606>>, <<42623, 42653>>, <<42656, 42735>>,
      <<42775, 42783>>, <<42786, 42888>>, <<42891, 42954>>, <<42960, 42961>>, <<42963, 42963>>,
      <<42965, 42969>>, <<42994, 43009>>, <<43011, 43013>>, <<43015, 43018>>, <<43020, 43042>>,
      <<43056, 43061>>, <<43072, 43123>>, <<43138, 43187>>, <<43216, 43225>>, <<43250, 43255>>,
      <<43259, 43259>>, <<43261, 43262>>, <<43264, 43301>>, <<43312, 43334>>, <<43360, 43388>>,
      <<43396, 43442>>, <<43471, 43481>>, <<43488, 43492>>, <<43494, 43518>>, <<43520, 43560>>,
      <<43584, 43586>>, <<43588, 43595>>, <<43600, 43609>>, <<43616, 43638>>, <<43642, 43642>>,
      <<43646, 43695>>, <<43697, 43697>>, <<43701, 43702>>, <<43705, 43709>>, <<43712, 43712>>,
      <<43714, 43714>>, <<43739, 43741>>, <<43744, 43754>>, <<43762, 43764>>, <<43777, 43782>>,
      <<43785, 43790>>, <<43793, 43798>>, <<43808, 43814>>, <<43816, 43822>>, <<43824, 43866>>,
      <<43868, 43881>>, <<43888, 44002>>, <<44016, 44025>>, <<44032, 55203>>, <<55216, 55238>>,
      <<55243, 55291>>, <<63744, 64109>>, <<64112, 64217>>, <<64256, 64262>>, <<64275, 64279>>,
      <<64285, 64285>>, <<64287, 64296>>, <<64298, 64310>>, <<64312, 64316>>, <<64318, 64318>>,
      <<64320, 64321>>, <<64323, 64324>>, <<64326, 64433>>, <<64467, 64829>>, <<64848, 64911>>,
      <<64914, 64967>>, <<65008, 65019>>, <<65136, 65140>>, <<65142, 65276>>, <<65296, 65305>>,
      <<65313, 65338>>, <<65345, 65370>>, <<65382, 65470>>, <<65474, 65479>>, <<65482, 65487>>,
      <<65490, 65495>>, <<65498, 65500>>, <<65536, 65547>>, <<65549, 65574>>, <<65576, 65594>>,
      <<65596, 65597>>, <<65599, 65613>>, <<65616, 65629>>, <<65664, 65786>>, <<65799, 65843>>,
      <<65856, 65912>>, <<65930, 65931>>, <<66176, 66204>>, <<66208, 66256>>, <<66273, 66299>>,
      <<66304, 66339>>, <<66349, 66378>>, <<66384, 66421>>, <<66432, 66461>>, <<66464, 66499>>,
      <<66504, 66511>>, <<66513, 66517>>, <<66560, 66717>>, <<66720, 66729>>, <<66736, 66771>>,
      <<66776, 66811>>, <<66816, 66855>>, <<66864, 66915>>, <<66928, 66938>>, <<66940, 66954>>,
      <<66956, 66962>>, <<66964, 66965>>, <<66967, 66977>>, <<66979, 66993>>, <<66995, 67001>>,
      <<67003, 67004>>, <<67072, 67382>>, <<67392, 67413>>, <<67424, 67431>>, <<67456, 67461>>,
      <<67463, 67504>>, <<67506, 67514>>, <<67584, 67589>>, <<67592, 67592>>, <<67594, 67637>>,
      <<67639, 67640>>, <<67644, 67644>>, <<67647, 67669>>, <<67672, 67702>>, <<67705, 67742>>,
      <<67751, 67759>>, <<67808, 67826>>, <<67828, 67829>>, <<67835, 67867>>, <<67872, 67897>>,
      <<67968, 68023>>, <<68028, 68047>>, <<68050, 68096>>, <<68112, 68115>>, <<68117, 68119>>,
      <<68121, 68149>>, <<68160, 68168>>, <<68192, 68222>>, <<68224, 68255>>, <<68288, 68295>>,
      <<68297, 68324>>, <<68331, 68335>>, <<68352, 68405>>, <<68416, 68437>>, <<68440, 68466>>,
      <<68472, 68497>>, <<68521, 68527>>, <<68608, 68680>>, <<68736, 68786>>, <<68800, 68850>>,
      <<68858, 68899>>, <<68912, 68921>>, <<69216, 69246>>, <<69248, 69289>>, <<69296, 69297>>,
      <<69376, 69415>>, <<69424, 69445>>, <<69457, 69460>>, <<69488, 69505>>, <<69552, 69579>>,
      <<69600, 69622>>, <<69635, 69687>>, <<69714, 69743>>, <<69745, 69746>>, <<69749, 69749>>,
      <<69763, 69807>>, <<69840, 69864>>, <<69872, 69881>>, <<69891, 69926>>, <<69942, 69951>>,
      <<69956, 69956>>, <<69959, 69959>>, <<69968, 70002>>, <<70006, 70006>>, <<70019, 70066>>,
      <<70081, 70084>>, <<70096, 70106>>, <<70108, 70108>>, <<70113, 70132>>, <<70144, 70161>>,
      <<70163, 70187>>, <<70272, 70278>>, <<70280, 70280>>, <<70282, 70285>>, <<70287, 70301>>,
      <<70303, 70312>>, <<70320, 70366>>, <<70384, 70393>>, <<70405, 70412>>, <<70415, 70416>>,
      <<70419, 70440>>, <<70442, 70448>>, <<70450, 70451>>, <<70453, 70457>>, <<70461, 70461>>,
      <<70480, 70480>>, <<70493, 70497>>, <<70656, 70708>>, <<70727, 70730>>, <<70736, 70745>>,
      <<70751, 70753>>, <<70784, 70831>>, <<70852, 70853>>, <<70855, 70855>>, <<70864, 70873>>,
      <<71040, 71086>>, <<71128, 71131>>, <<71168, 71215>>, <<71236, 71236>>, <<71248, 71257>>,
      <<71296, 71338>>, <<71352, 71352>>, <<71360, 71369>>, <<71424, 71450>>, <<71472, 71483>>,
      <<71488, 71494>>, <<71680, 71723>>, <<71840, 71922>>, <<71935, 71942>>, <<71945, 71945>>,
      <<71948, 71955>>, <<71957, 71958>>, <<71960, 71983>>, <<71999, 71999>>, <<72001, 72001>>,
      <<72016, 72025>>, <<72096, 72103>>, <<72106, 72144>>, <<72161, 72161>>, <<72163, 72163>>,
      <<72192, 72192>>, <<72203, 72242>>, <<72250, 72250>>, <<72272, 72272>>, <<72284, 72329>>,
      <<72349, 72349>>, <<72368, 72440>>, <<72704, 72712>>, <<72714, 72750>>, <<72768, 72768>>,
      <<72784, 72812>>, <<72818, 72847>>, <<72960, 72966>>, <<72968, 72969>>, <<72971, 73008>>,
      <<73030, 73030>>, <<73040, 73049>>, <<73056, 73061>>, <<73063, 73064>>, <<73066, 73097>>,
      <<73112, 73112>>, <<73120, 73129>>, <<73440, 73458>>, <<73648, 73648>>, <<73664, 73684>>,
      <<73728, 74649>>, <<74752, 74862>>, <<74880, 75075>>, <<77712, 77808>>, <<77824, 78894>>,
      <<82944, 83526>>, <<92160, 92728>>, <<92736, 92766>>, <<92768, 92777>>, <<92784, 92862>>,
      <<92864, 92873>>, <<92880, 92909>>, <<92928, 92975>>, <<92992, 92995>>, <<93008, 93017>>,
      <<93019, 93025>>, <<93027, 93047>>, <<93053, 93071>>, <<93760, 93846>>, <<93952, 94026>>,
      <<94032, 94032>>, <<94099, 94111>>, <<94176, 94177>>, <<94179, 94179>>,
      <<94208, 100343>>, <<100352, 101589>>, <<101632, 101640>>, <<110576, 110579>>,
      <<110581, 110587>>, <<110589, 110590>>, <<110592, 110882>>, <<110928, 110930>>,
      <<110948, 110951>>, <<110960, 111355>>, <<113664, 113770>>, <<113776, 113788>>,
      <<113792, 113800>>, <<113808, 113817>>, <<119520, 119539>>, <<119648, 119672>>,
      <<119808, 119892>>, <<119894, 119964>>, <<119966, 119967>>, <<119970, 119970>>,
      <<119973, 119974>>, <<119977, 119980>>, <<119982, 119993>>, <<119995, 119995>>,
      <<119997, 120003>>, <<120005, 120069>>, <<120071, 120074>>, <<120077, 120084>>,
      <<120086, 120092>>, <<120094, 120121>>, <<120123, 120126>>, <<120128, 120132>>,
      <<120134, 120134>>, <<120138, 120144>>, <<120146, 120485>>, <<120488, 120512>>,
      <<120514, 120538>>, <<120540, 120570>>, <<120572, 120596>>, <<120598, 120628>>,
      <<120630, 120654>>, <<120656, 120686>>, <<120688, 120712>>, <<120714, 120744>>,
      <<120746, 120770>>, <<120772, 120779>>, <<120782, 120831>>, <<122624, 122654>>,
      <<123136, 123180>>, <<123191, 123197>>, <<123200, 123209>>, <<123214, 123214>>,
      <<123536, 123565>>, <<123584, 123627>>, <<123632, 123641>>, <<124896, 124902>>,
      <<124904, 124907>>, <<124909, 124910>>, <<124912, 124926>>, <<124928, 125124>>,
      <<125127, 125135>>, <<125184, 125251>>, <<125259, 125259>>, <<125264, 125273>>,
      <<126065, 126123>>, <<126125, 126127>>, <<126129, 126132>>, <<126209, 126253>>,
      <<126255, 126269>>, <<126464, 126467>>, <<126469, 126495>>, <<126497, 126498>>,
      <<126500, 126500>>, <<126503, 126503>>, <<126505, 126514>>, <<126516, 126519>>,
      <<126521, 126521>>, <<126523, 126523>>, <<126530, 126530>>, <<126535, 126535>>,
      <<126537, 126537>>, <<126539, 126539>>, <<126541, 126543>>, <<126545, 126546>>,
      <<126548, 126548>>, <<126551, 126551>>, <<126553, 126553>>, <<126555, 126555>>,
      <<126557, 126557>>, <<126559, 126559>>, <<126561, 126562>>, <<126564, 126564>>,
      <<126567, 126570>>, <<126572, 126578>>, <<126580, 126583>>, <<126585, 126588>>,
      <<126590, 126590>>, <<126592, 126601>>, <<126603, 126619>>, <<126625, 126627>>,
      <<126629, 126633>>, <<126635, 126651>>, <<127232, 127244>>, <<130032, 130041>>,
      <<131072, 173791>>, <<173824, 177976>>, <<177984, 178205>>, <<178208, 183969>>,
      <<183984, 191456>>, <<194560, 195101>>, <<196608, 201546>> }

\* \d of a str pattern: the decimal digits of every script
DigitRanges ==
    { <<48, 57>>, <<1632, 1641>>, <<1776, 1785>>, <<1984, 1993>>, <<2406, 2415>>,
      <<2534, 2543>>, <<2662, 2671>>, <<2790, 2799>>, <<2918, 2927>>, <<3046, 3055>>,
      <<3174, 3183>>, <<3302, 3311>>, <<3430, 3439>>, <<3558, 3567>>, <<3664, 3673>>,
      <<3792, 3801>>, <<3872, 3881>>, <<4160, 4169>>, <<4240, 4249>>, <<6112, 6121>>,
      <<6160, 6169>>, <<6470, 6479>>, <<6608, 6617>>, <<6784, 6793>>, <<6800, 6809>>,
      <<6992, 7001>>, <<7088, 7097>>, <<7232, 7241>>, <<7248, 7257>>, <<42528, 42537>>,
      <<43216, 43225>>, <<43264, 43273>>, <<43472, 43481>>, <<43504, 43513>>, <<43600, 43609>>,
      <<44016, 44025>>, <<65296, 65305>>, <<66720, 66729>>, <<68912, 68921>>, <<69734, 69743>>,
      <<69872, 69881>>, <<69942, 69951>>, <<70096, 70105>>, <<70384, 70393>>, <<70736, 70745>>,
      <<70864, 70873>>, <<71248, 71257>>, <<71360, 71369>>, <<71472, 71481>>, <<71904, 71913>>,
      <<72016, 72025>>, <<72784, 72793>>, <<73040, 73049>>, <<73120, 73129>>, <<92768, 92777>>,
      <<92864, 92873>>, <<93008, 93017>>, <<120782, 120831>>, <<123200, 123209>>,
      <<123632, 123641>>, <<125264, 125273>>, <<130032, 130041>> }

\* \s of a str pattern, which is also what str.strip() removes
SpaceChars ==
    { 9, 10, 11, 12, 13, 28, 29, 30, 31, 32, 133, 160, 5760, 8192, 8193, 8194, 8195, 8196,
      8197, 8198, 8199, 8200, 8201, 8202, 8232, 8233, 8239, 8287, 12288 }

\* the characters str.lower() replaces by one other character, as runs
\* <<first, last, step, delta>>: every step-th character from first to last
\* becomes the character delta code points further
LowerRuns ==
    { <<65, 90, 1, 32>>, <<192, 214, 1, 32>>, <<216, 222, 1, 32>>, <<256, 302, 2, 1>>,
      <<306, 310, 2, 1>>, <<313, 327, 2, 1>>, <<330, 374, 2, 1>>, <<376, 376, 1, -121>>,
      <<377, 381, 2, 1>>, <<385, 385, 1, 210>>, <<386, 388, 2, 1>>, <<390, 390, 1, 206>>,
      <<391, 391, 1, 1>>, <<393, 394, 1, 205>>, <<395, 395, 1, 1>>, <<398, 398, 1, 79>>,
      <<399, 399, 1, 202>>, <<400, 400, 1, 203>>, <<401, 401, 1, 1>>, <<403, 403, 1, 205>>,
      <<404, 404, 1, 207>>, <<406, 406, 1, 211>>, <<407, 407, 1, 209>>, <<408, 408, 1, 1>>,
      <<412, 412, 1, 211>>, <<413, 413, 1, 213>>, <<415, 415, 1, 214>>, <<416, 420, 2, 1>>,
      <<422, 422, 1, 218>>, <<423, 423, 1, 1>>, <<425, 425, 1, 218>>, <<428, 428, 1, 1>>,
      <<430, 430, 1, 218>>, <<431, 431, 1, 1>>, <<433, 434, 1, 217>>, <<435, 437, 2, 1>>,
      <<439, 439, 1, 219>>, <<440, 440, 1, 1>>, <<444, 444, 1, 1>>, <<452, 452, 1, 2>>,
      <<453, 453, 1, 1>>, <<455, 455, 1, 2>>, <<456, 456, 1, 1>>, <<458, 458, 1, 2>>,
      <<459, 475, 2, 1>>, <<478, 494, 2, 1>>, <<497, 497, 1, 2>>, <<498, 500, 2, 1>>,
      <<502, 502, 1, -97>>, <<503, 503, 1, -56>>, <<504, 542, 2, 1>>, <<544, 544, 1, -130>>,
      <<546, 562, 2, 1>>, <<570, 570, 1, 10795>>, <<571, 571, 1, 1>>, <<573, 573, 1, -163>>,
      <<574, 574, 1, 10792>>, <<577, 577, 1, 1>>, <<579, 579, 1, -195>>, <<580, 580, 1, 69>>,
      <<581, 581, 1, 71>>, <<582, 590, 2, 1>>, <<880, 882, 2, 1>>, <<886, 886, 1, 1>>,
      <<895, 895, 1, 116>>, <<902, 902, 1, 38>>, <<904, 906, 1, 37>>, <<908, 908, 1, 64>>,
      <<910, 911, 1, 63>>, <<913, 929, 1, 32>>, <<931, 939, 1, 32>>, <<975, 975, 1, 8>>,
      <<984, 1006, 2, 1>>, <<1012, 1012, 1, -60>>, <<1015, 1015, 1, 1>>, <<1017, 1017, 1, -7>>,
      <<1018, 1018, 1, 1>>, <<1021, 1023, 1, -130>>, <<1024, 1039, 1, 80>>,
      <<1040, 1071, 1, 32>>, <<1120, 1152, 2, 1>>, <<1162, 1214, 2, 1>>, <<1216, 1216, 1, 15>>,
      <<1217, 1229, 2, 1>>, <<1232, 1326, 2, 1>>, <<1329, 1366, 1, 48>>,
      <<4256, 4293, 1, 7264>>, <<4295, 4295, 1, 7264>>, <<4301, 4301, 1, 7264>>,
      <<5024, 5103, 1, 38864>>, <<5104, 5109, 1, 8>>, <<7312, 7354, 1, -3008>>,
      <<7357, 7359, 1, -3008>>, <<7680, 7828, 2, 1>>, <<7838, 7838, 1, -7615>>,
      <<7840, 7934, 2, 1>>, <<7944, 7951, 1, -8>>, <<7960, 7965, 1, -8>>,
      <<7976, 7983, 1, -8>>, <<7992, 7999, 1, -8>>, <<8008, 8013, 1, -8>>,
      <<8025, 8031, 2, -8>>, <<8040, 8047, 1, -8>>, <<8072, 8079, 1, -8>>,
      <<8088, 8095, 1, -8>>, <<8104, 8111, 1, -8>>, <<8120, 8121, 1, -8>>,
      <<8122, 8123, 1, -74>>, <<8124, 8124, 1, -9>>, <<8136, 8139, 1, -86>>,
      <<8140, 8140, 1, -9>>, <<8152, 8153, 1, -8>>, <<8154, 8155, 1, -100>>,
      <<8168, 8169, 1, -8>>, <<8170, 8171, 1, -112>>, <<8172, 8172, 1, -7>>,
      <<8184, 8185, 1, -128>>, <<8186, 8187, 1, -126>>, <<8188, 8188, 1, -9>>,
      <<8486, 8486, 1, -7517>>, <<8490, 8490, 1, -8383>>, <<8491, 8491, 1, -8262>>,
      <<8498, 8498, 1, 28>>, <<8544, 8559, 1, 16>>, <<8579, 8579, 1, 1>>,
      <<9398, 9423, 1, 26>>, <<11264, 11311, 1, 48>>, <<11360, 11360, 1, 1>>,
      <<11362, 11362, 1, -10743>>, <<11363, 11363, 1, -3814>>, <<11364, 11364, 1, -10727>>,
      <<11367, 11371, 2, 1>>, <<11373, 11373, 1, -10780>>, <<11374, 11374, 1, -10749>>,
      <<11375, 11375, 1, -10783>>, <<11376, 11376, 1, -10782>>, <<11378, 11378, 1, 1>>,
      <<11381, 11381, 1, 1>>, <<11390, 11391, 1, -10815>>, <<11392, 11490, 2, 1>>,
      <<11499, 11501, 2, 1>>, <<11506, 11506, 1, 1>>, <<42560, 42604, 2, 1>>,
      <<42624, 42650, 2, 1>>, <<42786, 42798, 2, 1>>, <<42802, 42862, 2, 1>>,
      <<42873, 42875, 2, 1>>, <<42877, 42877, 1, -35332>>, <<42878, 42886, 2, 1>>,
      <<42891, 42891, 1, 1>>, <<42893, 42893, 1, -42280>>, <<42896, 42898, 2, 1>>,
      <<42902, 42920, 2, 1>>, <<42922, 42922, 1, -42308>>, <<42923, 42923, 1, -42319>>,
      <<42924, 42924, 1, -42315>>, <<42925, 42925, 1, -42305>>, <<42926, 42926, 1, -42308>>,
      <<42928, 42928, 1, -42258>>, <<42929, 42929, 1, -42282>>, <<42930, 42930, 1, -42261>>,
      <<42931, 42931, 1, 928>>, <<42932, 42946, 2, 1>>, <<42948, 42948, 1, -48>>,
      <<42949, 42949, 1, -42307>>, <<42950, 42950, 1, -35384>>, <<42951, 42953, 2, 1>>,
      <<42960, 42960, 1, 1>>, <<42966, 42968, 2, 1>>, <<42997, 42997, 1, 1>>,
      <<65313, 65338, 1, 32>>, <<66560, 66599, 1, 40>>, <<66736, 66771, 1, 40>>,
      <<66928, 66964, 2, 39>>, <<66929, 66937, 2, 39>>, <<66941, 66953, 2, 39>>,
      <<66957, 66961, 2, 39>>, <<66965, 66965, 1, 39>>, <<68736, 68786, 1, 64>>,
      <<71840, 71871, 1, 32>>, <<93760, 93791, 1, 32>>, <<125184, 125217, 1, 34>> }

\* the characters a capital sigma looks through to find its neighbours
CaseIgnorableRanges ==
    { <<39, 39>>, <<46, 46>>, <<58, 58>>, <<94, 94>>, <<96, 96>>, <<168, 168>>, <<173, 173>>,
      <<175, 175>>, <<180, 180>>, <<183, 184>>, <<688, 879>>, <<884, 885>>, <<890, 890>>,
      <<900, 901>>, <<903, 903>>, <<1155, 1161>>, <<1369, 1369>>, <<1375, 1375>>,
      <<1425, 1469>>, <<1471, 1471>>, <<1473, 1474>>, <<1476, 1477>>, <<1479, 1479>>,
      <<1524, 1524>>, <<1536, 1541>>, <<1552, 1562>>, <<1564, 1564>>, <<1600, 1600>>,
      <<1611, 1631>>, <<1648, 1648>>, <<1750, 1757>>, <<1759, 1768>>, <<1770, 1773>>,
      <<1807, 1807>>, <<1809, 1809>>, <<1840, 1866>>, <<1958, 1968>>, <<2027, 2037>>,
      <<2042, 2042>>, <<2045, 2045>>, <<2070, 2093>>, <<2137, 2139>>, <<2184, 2184>>,
      <<2192, 2193>>, <<2200, 2207>>, <<2249, 2306>>, <<2362, 2362>>, <<2364, 2364>>,
      <<2369, 2376>>, <<2381, 2381>>, <<2385, 2391>>, <<2402, 2403>>, <<2417, 2417>>,
      <<2433, 2433>>, <<2492, 2492>>, <<2497, 2500>>, <<2509, 2509>>, <<2530, 2531>>,
      <<2558, 2558>>, <<2561, 2562>>, <<2620, 2620>>, <<2625, 2626>>, <<2631, 2632>>,
      <<2635, 2637>>, <<2641, 2641>>, <<2672, 2673>>, <<2677, 2677>>, <<2689, 2690>>,
      <<2748, 2748>>, <<2753, 2757>>, <<2759, 2760>>, <<2765, 2765>>, <<2786, 2787>>,
      <<2810, 2815>>, <<2817, 2817>>, <<2876, 2876>>, <<2879, 2879>>, <<2881, 2884>>,
      <<2893, 2893>>, <<2901, 2902>>, <<2914, 2915>>, <<2946, 2946>>, <<3008, 3008>>,
      <<3021, 3021>>, <<3072, 3072>>, <<3076, 3076>>, <<3132, 3132>>, <<3134, 3136>>,
      <<3142, 3144>>, <<3146, 3149>>, <<3157, 3158>>, <<3170, 3171>>, <<3201, 3201>>,
      <<3260, 3260>>, <<3263, 3263>>, <<3270, 3270>>, <<3276, 3277>>, <<3298, 3299>>,
      <<3328, 3329>>, <<3387, 3388>>, <<3393, 3396>>, <<3405, 3405>>, <<3426, 3427>>,
      <<3457, 3457>>, <<3530, 3530>>, <<3538, 3540>>, <<3542, 3542>>, <<3633, 3633>>,
      <<3636, 3642>>, <<3654, 3662>>, <<3761, 3761>>, <<3764, 3772>>, <<3782, 3782>>,
      <<3784, 3789>>, <<3864, 3865>>, <<3893, 3893>>, <<3895, 3895>>, <<3897, 3897>>,
      <<3953, 3966>>, <<3968, 3972>>, <<3974, 3975>>, <<3981, 3991>>, <<3993, 4028>>,
      <<4038, 4038>>, <<4141, 4144>>, <<4146, 4151>>, <<4153, 4154>>, <<4157, 4158>>,
      <<4184, 4185>>, <<4190, 4192>>, <<4209, 4212>>, <<4226, 4226>>, <<4229, 4230>>,
      <<4237, 4237>>, <<4253, 4253>>, <<4348, 4348>>, <<4957, 4959>>, <<5906, 5908>>,
      <<5938, 5939>>, <<5970, 5971>>, <<6002, 6003>>, <<6068, 6069>>, <<6071, 6077>>,
      <<6086, 6086>>, <<6089, 6099>>, <<6103, 6103>>, <<6109, 6109>>, <<6155, 6159>>,
      <<6211, 6211>>, <<6277, 6278>>, <<6313, 6313>>, <<6432, 6434>>, <<6439, 6440>>,
      <<6450, 6450>>, <<6457, 6459>>, <<6679, 6680>>, <<6683, 6683>>, <<6742, 6742>>,
      <<6744, 6750>>, <<6752, 6752>>, <<6754, 6754>>, <<6757, 6764>>, <<6771, 6780>>,
      <<6783, 6783>>, <<6823, 6823>>, <<6832, 6862>>, <<6912, 6915>>, <<6964, 6964>>,
      <<6966, 6970>>, <<6972, 6972>>, <<6978, 6978>>, <<7019, 7027>>, <<7040, 7041>>,
      <<7074, 7077>>, <<7080, 7081>>, <<7083, 7085>>, <<7142, 7142>>, <<7144, 7145>>,
      <<7149, 7149>>, <<7151, 7153>>, <<7212, 7219>>, <<7222, 7223>>, <<7288, 7293>>,
      <<7376, 7378>>, <<7380, 7392>>, <<7394, 7400>>, <<7405, 7405>>, <<7412, 7412>>,
      <<7416, 7417>>, <<7468, 7530>>, <<7544, 7544>>, <<7579, 7679>>, <<8125, 8125>>,
      <<8127, 8129>>, <<8141, 8143>>, <<8157, 8159>>, <<8173, 8175>>, <<8189, 8190>>,
      <<8203, 8207>>, <<8216, 8217>>, <<8228, 8228>>, <<8231, 8231>>, <<8234, 8238>>,
      <<8288, 8292>>, <<8294, 8303>>, <<8305, 8305>>, <<8319, 8319>>, <<8336, 8348>>,
      <<8400, 8432>>, <<11388, 11389>>, <<11503, 11505>>, <<11631, 11631>>, <<11647, 11647>>,
      <<11744, 11775>>, <<11823, 11823>>, <<12293, 12293>>, <<12330, 12333>>, <<12337, 12341>>,
      <<12347, 12347>>, <<12441, 12446>>, <<12540, 12542>>, <<40981, 40981>>, <<42232, 42237>>,
      <<42508, 42508>>, <<42607, 42610>>, <<42612, 42621>>, <<42623, 42623>>, <<42652, 42655>>,
      <<42736, 42737>>, <<42752, 42785>>, <<42864, 42864>>, <<42888, 42890>>, <<42994, 42996>>,
      <<43000, 43001>>, <<43010, 43010>>, <<43014, 43014>>, <<43019, 43019>>, <<43045, 43046>>,
      <<43052, 43052>>, <<43204, 43205>>, <<43232, 43249>>, <<43263, 43263>>, <<43302, 43309>>,
      <<43335, 43345>>, <<43392, 43394>>, <<43443, 43443>>, <<43446, 43449>>, <<43452, 43453>>,
      <<43471, 43471>>, <<43493, 43494>>, <<43561, 43566>>, <<43569, 43570>>, <<43573, 43574>>,
      <<43587, 43587>>, <<43596, 43596>>, <<43632, 43632>>, <<43644, 43644>>, <<43696, 43696>>,
      <<43698, 43700>>, <<43703, 43704>>, <<43710, 43711>>, <<43713, 43713>>, <<43741, 43741>>,
      <<43756, 43757>>, <<43763, 43764>>, <<43766, 43766>>, <<43867, 43871>>, <<43881, 43883>>,
      <<44005, 44005>>, <<44008, 44008>>, <<44013, 44013>>, <<64286, 64286>>, <<64434, 64450>>,
      <<65024, 65039>>, <<65043, 65043>>, <<65056, 65071>>, <<65106, 65106>>, <<65109, 65109>>,
      <<65279, 65279>>, <<65287, 65287>>, <<65294, 65294>>, <<65306, 65306>>, <<65342, 65342>>,
      <<65344, 65344>>, <<65392, 65392>>, <<65438, 65439>>, <<65507, 65507>>, <<65529, 65531>>,
      <<66045, 66045>>, <<66272, 66272>>, <<66422, 66426>>, <<67456, 67461>>, <<67463, 67504>>,
      <<67506, 67514>>, <<68097, 68099>>, <<68101, 68102>>, <<68108, 68111>>, <<68152, 68154>>,
      <<68159, 68159>>, <<68325, 68326>>, <<68900, 68903>>, <<69291, 69292>>, <<69446, 69456>>,
      <<69506, 69509>>, <<69633, 69633>>, <<69688, 69702>>, <<69744, 69744>>, <<69747, 69748>>,
      <<69759, 69761>>, <<69811, 69814>>, <<69817, 69818>>, <<69821, 69821>>, <<69826, 69826>>,
      <<69837, 69837>>, <<69888, 69890>>, <<69927, 69931>>, <<69933, 69940>>, <<70003, 70003>>,
      <<70016, 70017>>, <<70070, 70078>>, <<70089, 70092>>, <<70095, 70095>>, <<70191, 70193>>,
      <<70196, 70196>>, <<70198, 70199>>, <<70206, 70206>>, <<70367, 70367>>, <<70371, 70378>>,
      <<70400, 70401>>, <<70459, 70460>>, <<70464, 70464>>, <<70502, 70508>>, <<70512, 70516>>,
      <<70712, 70719>>, <<70722, 70724>>, <<70726, 70726>>, <<70750, 70750>>, <<70835, 70840>>,
      <<70842, 70842>>, <<70847, 70848>>, <<70850, 70851>>, <<71090, 71093>>, <<71100, 71101>>,
      <<71103, 71104>>, <<71132, 71133>>, <<71219, 71226>>, <<71229, 71229>>, <<71231, 71232>>,
      <<71339, 71339>>, <<71341, 71341>>, <<71344, 71349>>, <<71351, 71351>>, <<71453, 71455>>,
      <<71458, 71461>>, <<71463, 71467>>, <<71727, 71735>>, <<71737, 71738>>, <<71995, 71996>>,
      <<71998, 71998>>, <<72003, 72003>>, <<72148, 72151>>, <<72154, 72155>>, <<72160, 72160>>,
      <<72193, 72202>>, <<72243, 72248>>, <<72251, 72254>>, <<72263, 72263>>, <<72273, 72278>>,
      <<72281, 72283>>, <<72330, 72342>>, <<72344, 72345>>, <<72752, 72758>>, <<72760, 72765>>,
      <<72767, 72767>>, <<72850, 72871>>, <<72874, 72880>>, <<72882, 72883>>, <<72885, 72886>>,
      <<73009, 73014>>, <<73018, 73018>>, <<73020, 73021>>, <<73023, 73029>>, <<73031, 73031>>,
      <<73104, 73105>>, <<73109, 73109>>, <<73111, 73111>>, <<73459, 73460>>, <<78896, 78904>>,
      <<92912, 92916>>, <<92976, 92982>>, <<92992, 92995>>, <<94031, 94031>>, <<94095, 94111>>,
      <<94176, 94177>>, <<94179, 94180>>, <<110576, 110579>>, <<110581, 110587>>,
      <<110589, 110590>>, <<113821, 113822>>, <<113824, 113827>>, <<118528, 118573>>,
      <<118576, 118598>>, <<119143, 119145>>, <<119155, 119170>>, <<119173, 119179>>,
      <<119210, 119213>>, <<119362, 119364>>, <<121344, 121398>>, <<121403, 121452>>,
      <<121461, 121461>>, <<121476, 121476>>, <<121499, 121503>>, <<121505, 121519>>,
      <<122880, 122886>>, <<122888, 122904>>, <<122907, 122913>>, <<122915, 122916>>,
      <<122918, 122922>>, <<123184, 123197>>, <<123566, 123566>>, <<123628, 123631>>,
      <<125136, 125142>>, <<125252, 125259>>, <<127995, 127999>>, <<917505, 917505>>,
      <<917536, 917631>>, <<917760, 917999>> }

\* the characters that have a case
CasedRanges ==
    { <<65, 90>>, <<97, 122>>, <<170, 170>>, <<181, 181>>, <<186, 186>>, <<192, 214>>,
      <<216, 246>>, <<248, 442>>, <<444, 447>>, <<452, 659>>, <<661, 696>>, <<704, 705>>,
      <<736, 740>>, <<837, 837>>, <<880, 883>>, <<886, 887>>, <<890, 893>>, <<895, 895>>,
      <<902, 902>>, <<904, 906>>, <<908, 908>>, <<910, 929>>, <<931, 1013>>, <<1015, 1153>>,
      <<1162, 1327>>, <<1329, 1366>>, <<1376, 1416>>, <<4256, 4293>>, <<4295, 4295>>,
      <<4301, 4301>>, <<4304, 4346>>, <<4349, 4351>>, <<5024, 5109>>, <<5112, 5117>>,
      <<7296, 7304>>, <<7312, 7354>>, <<7357, 7359>>, <<7424, 7615>>, <<7680, 7957>>,
      <<7960, 7965>>, <<7968, 8005>>, <<8008, 8013>>, <<8016, 8023>>, <<8025, 8025>>,
      <<8027, 8027>>, <<8029, 8029>>, <<8031, 8061>>, <<8064, 8116>>, <<8118, 8124>>,
      <<8126, 8126>>, <<8130, 8132>>, <<8134, 8140>>, <<8144, 8147>>, <<8150, 8155>>,
      <<8160, 8172>>, <<8178, 8180>>, <<8182, 8188>>, <<8305, 8305>>, <<8319, 8319>>,
      <<8336, 8348>>, <<8450, 8450>>, <<8455, 8455>>, <<8458, 8467>>, <<8469, 8469>>,
      <<8473, 8477>>, <<8484, 8484>>, <<8486, 8486>>, <<8488, 8488>>, <<8490, 8493>>,
      <<8495, 8500>>, <<8505, 8505>>, <<8508, 8511>>, <<8517, 8521>>, <<8526, 8526>>,
      <<8544, 8575>>, <<8579, 8580>>, <<9398, 9449>>, <<11264, 11492>>, <<11499, 11502>>,
      <<11506, 11507>>, <<11520, 11557>>, <<11559, 11559>>, <<11565, 11565>>, <<42560, 42605>>,
      <<42624, 42653>>, <<42786, 42887>>, <<42891, 42894>>, <<42896, 42954>>, <<42960, 42961>>,
      <<42963, 42963>>, <<42965, 42969>>, <<42997, 42998>>, <<43000, 43002>>, <<43824, 43866>>,
      <<43868, 43880>>, <<43888, 43967>>, <<64256, 64262>>, <<64275, 64279>>, <<65313, 65338>>,
      <<65345, 65370>>, <<66560, 66639>>, <<66736, 66771>>, <<66776, 66811>>, <<66928, 66938>>,
      <<66940, 66954>>, <<66956, 66962>>, <<66964, 66965>>, <<66967, 66977>>, <<66979, 66993>>,
      <<66995, 67001>>, <<67003, 67004>>, <<67456, 67456>>, <<67459, 67461>>, <<67463, 67504>>,
      <<67506, 67514>>, <<68736, 68786>>, <<68800, 68850>>, <<71840, 71903>>, <<93760, 93823>>,
      <<119808, 119892>>, <<119894, 119964>>, <<119966, 119967>>, <<119970, 119970>>,
      <<119973, 119974>>, <<119977, 119980>>, <<119982, 119993>>, <<119995, 119995>>,
      <<119997, 120003>>, <<120005, 120069>>, <<120071, 120074>>, <<120077, 120084>>,
      <<120086, 120092>>, <<120094, 120121>>, <<120123, 120126>>, <<120128, 120132>>,
      <<120134, 120134>>, <<120138, 120144>>, <<120146, 120485>>, <<120488, 120512>>,
      <<120514, 120538>>, <<120540, 120570>>, <<120572, 120596>>, <<120598, 120628>>,
      <<120630, 120654>>, <<120656, 120686>>, <<120688, 120712>>, <<120714, 120744>>,
      <<120746, 120770>>, <<120772, 120779>>, <<122624, 122633>>, <<122635, 122654>>,
      <<125184, 125251>>, <<127280, 127305>>, <<127312, 127337>>, <<127344, 127369>> }

\* ------------------------------------------------------------------------
\* Characters and the str methods the code uses
\* ------------------------------------------------------------------------
Ch(s, i) == s[i]

Covered(ranges) == UNION { r[1]..r[2] : r \in ranges }

WordChars == Covered(WordRanges)
DigitChars == Covered(DigitRanges)
CaseIgnorable == Covered(CaseIgnorableRanges)
Cased == Covered(CasedRanges)

\* the characters of a run
RunChars(r) == { r[1] + r[3] * k : k \in 0..((r[2] - r[1]) \div r[3]) }

LowerOf ==
    [c \in UNION { RunChars(r) : r \in LowerRuns } |->
        c + (CHOOSE r \in LowerRuns : c \in RunChars(r))[4]]

\* the least element of a non-empty set of integers
Least(S) == CHOOSE x \in S : \A y \in S : x <= y
Greatest(S) == CHOOSE x \in S : \A y \in S : x >= y

\* a capital sigma (931) is the last letter of a word: the nearest character
\* before it that is not case-ignorable has a case, the nearest after it has
\* none
FinalSigma(s, i) ==
    LET before == { j \in 1..(i - 1) : s[j] \notin CaseIgnorable }
        after == { j \in (i + 1)..Len(s) : s[j] \notin CaseIgnorable }
    IN  /\ before # {}
        /\ s[Greatest(before)] \in Cased
        /\ after = {} \/ s[Least(after)] \notin Cased

\* what str.lower() puts for the character at position i of s: a final or a
\* plain small sigma (962, 963) for a capital sigma, two characters for the
\* dotted capital I (304), the lower-case character for any other capital
LowerChar(s, i) ==
    LET c == s[i]
    IN  IF c = 931 THEN << IF FinalSigma(s, i) THEN 962 ELSE 963 >>
        ELSE IF c = 304 THEN << 105, 775 >>
        ELSE IF c \in DOMAIN LowerOf THEN << LowerOf[c] >>
        ELSE << c >>

\* str.lower() of the characters a to b of s, by halves
RECURSIVE LowerRange(_, _, _)
LowerRange(s, a, b) ==
    IF a > b THEN << >>
    ELSE IF a = b THEN LowerChar(s, a)
    ELSE LET h == (a + b) \div 2
         IN  LowerRange(s, a, h) \o LowerRange(s, h + 1, b)

lower(s) == LowerRange(s, 1, Len(s))

\* str.strip(): from the first to the last character that is not white space
strip(s) ==
    LET solid == { i \in 1..Len(s) : Ch(s, i) \notin SpaceChars }
    IN  IF solid = {} THEN << >> ELSE SubSeq(s, Least(solid), Greatest(solid))

\* Python truthiness of an optional str
Truthy(x) == x # None /\ x # << >>

\* ------------------------------------------------------------------------
\* Regular-expression building blocks
\* ------------------------------------------------------------------------
\* the literal lit occurs in s at position i
StartsAt(s, i, lit) ==
    /\ i >= 1
    /\ i + Len(lit) - 1 <= Len(s)
    /\ SubSeq(s, i, i + Len(lit) - 1) = lit

\* number of consecutive characters of class cls in s from position j on
ClassRun(s, j, cls) ==
    Least({ k \in j..(Len(s) + 1) : k = Len(s) + 1 \/ Ch(s, k) \notin cls }) - j

\* [\w\s] and [\w\s,]
WordSpace == WordChars \cup SpaceChars
WordSpaceComma == WordSpace \cup {44}

\* \b at the gap before position p: exactly one neighbour is a word character
IsWordAt(s, p) == p >= 1 /\ p <= Len(s) /\ Ch(s, p) \in WordChars
WordBoundary(s, p) == IsWordAt(s, p - 1) # IsWordAt(s, p)

\* ------------------------------------------------------------------------
\* extract_start_end_locations
\* ------------------------------------------------------------------------
\* r"from ([\w\s]+?) to": lengths n of group 1 for a match starting at i
StartGroupLens(q, i) ==
    IF StartsAt(q, i, Lit.from_sp)
    THEN { n \in 1..ClassRun(q, i + 5, WordSpace) : StartsAt(q, i + 5 + n, Lit.sp_to) }
    ELSE {}

StartMatchPositions(q) == { i \in 1..Len(q) : StartGroupLens(q, i) # {} }

\* re.search: leftmost start, then the lazy group takes the fewest characters
start_match(q) ==
    IF StartMatchPositions(q) = {} THEN None
    ELSE LET i == Least(StartMatchPositions(q))
         IN  SubSeq(q, i + 5, i + 4 + Least(StartGroupLens(q, i)))

\* (,|\.| with| but| and|$) at position p
StopAt(q, p) ==
    \/ StartsAt(q, p, Lit.comma)
    \/ StartsAt(q, p, Lit.dot)
    \/ StartsAt(q, p, Lit.sp_with)
    \/ StartsAt(q, p, Lit.sp_but)
    \/ StartsAt(q, p, Lit.sp_and)
    \/ p = Len(q) + 1
    \/ p = Len(q) /\ Ch(q, p) = 10      \* $ also matches before a final newline

\* r"to ([\w\s]+?)(,|\.| with| but| and|$)"
EndGroupLens(q, i) ==
    IF StartsAt(q, i, Lit.to_sp)
    THEN { n \in 1..ClassRun(q, i + 3, WordSpace) : StopAt(q, i + 3 + n) }
    ELSE {}

EndMatchPositions(q) == { i \in 1..Len(q) : EndGroupLens(q, i) # {} }

end_match(q) ==
    IF EndMatchPositions(q) = {} THEN None
    ELSE LET i == Least(EndMatchPositions(q))
         IN  SubSeq(q, i + 3, i + 2 + Least(EndGroupLens(q, i)))

extract_start_end_locations(query) ==
    LET q == lower(query)
        sm == start_match(q)
        em == end_match(q)
    IN  [start |-> IF sm # None THEN strip(sm) ELSE Lit.current_location,
         end   |-> IF em # None THEN strip(em) ELSE None]

\* ------------------------------------------------------------------------
\* extract_waypoints
\* ------------------------------------------------------------------------
\* re.split(r",|and", s)
SepLenAt(s, i) ==
    IF StartsAt(s, i, Lit.comma) THEN 1 ELSE IF StartsAt(s, i, Lit.and_) THEN 3 ELSE 0

RECURSIVE re_split(_)
re_split(s) ==
    LET seps == { i \in 1..Len(s) : SepLenAt(s, i) > 0 }
    IN  IF seps = {} THEN << s >>
        ELSE LET i == Least(seps)
             IN  << SubSeq(s, 1, i - 1) >>
                 \o re_split(SubSeq(s, i + SepLenAt(s, i), Len(s)))

\* re.findall of  <one of prefixes>(<cls>+)  in q from position pos on
PrefixesAt(q, i, prefixes, cls) ==
    { p \in prefixes : StartsAt(q, i, p) /\ ClassRun(q, i + Len(p), cls) >= 1 }

RECURSIVE findall(_, _, _, _)
findall(q, pos, prefixes, cls) ==
    LET hits == { i \in pos..Len(q) : PrefixesAt(q, i, prefixes, cls) # {} }
    IN  IF hits = {} THEN << >>
        ELSE LET i == Least(hits)
                 p == CHOOSE x \in PrefixesAt(q, i, prefixes, cls) : TRUE
                 j == i + Len(p)
                 n == ClassRun(q, j, cls)
             IN  << SubSeq(q, j, j + n - 1) >> \o findall(q, j + n, prefixes, cls)

waypoint_patterns ==
    << [prefixes |-> {Text("stop at ")}, cls |-> WordSpace],
       [prefixes |-> {Text("night stay at "), Text("night stay in ")}, cls |-> WordSpaceComma],
       [prefixes |-> {Text("via ")}, cls |-> WordSpaceComma],
       [prefixes |-> {Text("quick stop at ")}, cls |-> WordSpace] >>

RECURSIVE StripAll(_)
StripAll(parts) ==
    IF parts = << >> THEN << >> ELSE << strip(Head(parts)) >> \o StripAll(Tail(parts))

\* waypoints.extend(point.strip() for point in re.split(...)) over the matches
RECURSIVE SplitMatches(_)
SplitMatches(matches) ==
    IF matches = << >> THEN << >>
    ELSE StripAll(re_split(Head(matches))) \o SplitMatches(Tail(matches))

RECURSIVE WaypointsFrom(_, _)
WaypointsFrom(q, k) ==
    IF k > Len(waypoint_patterns) THEN << >>
    ELSE SplitMatches(findall(q, 1, waypoint_patterns[k].prefixes, waypoint_patterns[k].cls))
         \o WaypointsFrom(q, k + 1)

extract_waypoints(query) == WaypointsFrom(lower(query), 1)

\* ------------------------------------------------------------------------
\* extract_distance_constraints and the durations of extract_time_constraints
\* ------------------------------------------------------------------------
\* the alternatives of (?:...), in the order the pattern lists them
distance_units == Texts(<< "miles", "mile", "km", "kilometers" >>)
duration_units ==
    Texts(<< "minutes", "minute", "mins", "min", "hours", "hour", "hrs", "hr" >>)

\* length of the match of  \d+<sep>?(?:units)  at position i, 0 if there is
\* none; sep is the class of the optional separator
NumberUnitLen(q, i, sep, units) ==
    LET j == i + ClassRun(q, i, DigitChars)
        k == IF j <= Len(q) /\ Ch(q, j) \in sep THEN j + 1 ELSE j
        found == { u \in 1..Len(units) : StartsAt(q, k, units[u]) }
    IN  IF j = i \/ found = {} THEN 0 ELSE k + Len(units[Least(found)]) - i

\* re.findall of  <prefix>(\d+<sep>?(?:units))  in q from position pos on
RECURSIVE findall_units(_, _, _, _, _)
findall_units(q, pos, prefix, sep, units) ==
    LET hits == { i \in pos..Len(q) :
                    /\ StartsAt(q, i, prefix)
                    /\ NumberUnitLen(q, i + Len(prefix), sep, units) > 0 }
    IN  IF hits = {} THEN << >>
        ELSE LET j == Least(hits) + Len(prefix)
                 n == NumberUnitLen(q, j, sep, units)
             IN  << SubSeq(q, j, j + n - 1) >>
                 \o findall_units(q, j + n, prefix, sep, units)

\* " ?" of the pattern is a blank, not \s
extract_distance_constraints(query) ==
    findall_units(lower(query), 1, Lit.rest_stops_every, {32}, distance_units)

extract_durations(query) ==
    findall_units(lower(query), 1, << >>, SpaceChars, duration_units)

\* ------------------------------------------------------------------------
\* extract_intents
\* ------------------------------------------------------------------------
intent_keywords ==
    << [intent |-> "Basic Navigation",
        keywords |-> Texts(<<"navigate", "route", "direction", "way to reach", "go to">>)],
       [intent |-> "Multi-Stop",
        keywords |-> Texts(<<"multi-stop", "stops at", "via", "passing through",
                       "multiple stops", "with stops">>)],
       [intent |-> "Time-Constrained",
        keywords |-> Texts(<<"arrive by", "reach by", "leave at", "depart at", "by",
                       "before", "after", "sharp">>)],
       [intent |-> "Traffic-Aware",
        keywords |-> Texts(<<"avoid traffic", "traffic-free", "least traffic", "no congestion">>)],
       [intent |-> "Scenic Routing",
        keywords |-> Texts(<<"scenic", "beautiful", "picturesque", "scenery">>)],
       [intent |-> "Fuel-Efficient",
        keywords |-> Texts(<<"fuel-efficient", "save fuel", "economic route">>)],
       [intent |-> "Avoiding Tolls",
        keywords |-> Texts(<<"avoid tolls", "no tolls", "without toll">>)],
       [intent |-> "Avoiding Highways",
        keywords |-> Texts(<<"avoid highways", "no highways", "without highways">>)],
       [intent |-> "Weather-Based",
        keywords |-> Texts(<<"weather", "rain", "snow", "storm", "avoid weather">>)],
       [intent |-> "EV Charging",
        keywords |-> Texts(<<"ev charging", "electric charging", "charging stations", "ev stops">>)],
       [intent |-> "Emergency Routing",
        keywords |-> Texts(<<"hospital", "emergency", "urgent care", "immediately">>)],
       [intent |-> "Parking Availability",
        keywords |-> Texts(<<"parking", "park near", "where can i park">>)],
       [intent |-> "Shortest",
        keywords |-> Texts(<<"shortest", "quickest", "fastest">>)],
       [intent |-> "Rest Stop",
        keywords |-> Texts(<<"rest stop", "break every", "rest every", "stop every">>)],
       [intent |-> "Night Stay",
        keywords |-> Texts(<<"night stay", "overnight", "stay in", "stay at">>)] >>

\* re.search(r'\b' + re.escape(kw) + r'\b', query_lower)
KeywordFound(q, kw) ==
    \E i \in 1..Len(q) :
        /\ StartsAt(q, i, kw)
        /\ WordBoundary(q, i)
        /\ WordBoundary(q, i + Len(kw))

RECURSIVE IntentsFrom(_, _)
IntentsFrom(q, k) ==
    IF k > Len(intent_keywords) THEN << >>
    ELSE (IF \E j \in 1..Len(intent_keywords[k].keywords) :
                 KeywordFound(q, intent_keywords[k].keywords[j])
          THEN << intent_keywords[k].intent >> ELSE << >>)
         \o IntentsFrom(q, k + 1)

extract_intents(query) == IntentsFrom(lower(query), 1)

\* ------------------------------------------------------------------------
\* The test queries
\* ------------------------------------------------------------------------
queries ==
    Texts(<<
       "Plan a trip from Dallas to Austin with a stop at a Walmart and a coffee shop.",
       "Navigate from New York to Philadelphia and avoid highways, stop at a gas station and pharmacy.",
       "Drive from San Francisco to Napa Valley with scenic views and a night stay in Sonoma.",
       "Plan a long road trip from New York to Los Angeles with rest stops every 300 miles and a night stay in Chicago and Denver.",
       "Find the shortest route from my house to the airport with a quick stop at a nearby ATM.",
       "Show me a scenic drive from San Francisco to Yosemite National Park with a stop at a famous viewpoint.",
       "Navigate from Dallas to Austin avoiding tolls and highways, prefer fuel-efficient route with EV charging every 150 miles.",
       "I need to urgently reach a hospital from my office due to heavy snow and avoid traffic.",
       "Plan a trip from Seattle to Portland, include scenic views, parking availability near downtown, and rest stops every 100 miles." >>)

\* ------------------------------------------------------------------------
\* Bounds of the model
\* ------------------------------------------------------------------------
MaxTokens == 4      \* words in a generated query
MaxEnts == 1        \* entities the tagger reports for one query
MaxResults == 3     \* raw candidates returned by one discover request
MaxLimit == 3       \* largest limit passed to search_best_places

\* ------------------------------------------------------------------------
\* Inputs: queries, collaborator answers
\* ------------------------------------------------------------------------
Tokens == {Text("from"), Text("to"), Text("austin,"), Text("via"), Text("photo")}

RECURSIVE Join(_)
Join(ws) ==
    IF Len(ws) = 0 THEN << >>
    ELSE IF Len(ws) = 1 THEN ws[1]
    ELSE ws[1] \o Lit.blank \o Join(Tail(ws))

GenQueries == UNION { { Join(ws) : ws \in [1..n -> Tokens] } : n \in 1..MaxTokens }

\* the loop of the module runs over queries; structured_output takes any query
Batches == {queries} \cup { << q >> : q \in GenQueries }

\* the value standing for a call that raised instead of returning a list
Raised == << [raised |-> TRUE] >>

DEFAULT_COORDINATES == [lat |-> "32.7332477", lon |-> "-97.1117687"]
DEFAULT_COUNTRY_CODE == Text("USA")

\* what geocode_location can return: None, or the first item's position and country
GeocodeResults ==
    { Null,
      [lat |-> "30.2711286", lon |-> "-97.7436995", countryCode |-> Text("USA")] }

\* what get_route_info can return: None, or the length, the duration and the
\* polyline of the first section, each of them None when the section lacks it;
\* "BF" is a polyline of no point
RouteResults ==
    { Null,
      [distance_meters |-> 314000, duration_seconds |-> 10800, polyline |-> Text("BFoz5xJ67i1B")],
      [distance_meters |-> 314000, duration_seconds |-> 10800, polyline |-> Text("BF")],
      [distance_meters |-> NoneNumber, duration_seconds |-> NoneNumber, polyline |-> None] }

\* number of points decode_polyline finds after the two characters of the header
\* (each coordinate of the polylines above takes five characters)
DecodedPoints(polyline) == (Len(polyline) - 2) \div 10

\* named places the entity tagger may report, and the labels it may give them
Gazetteer == {Text("Dallas"), Text("Austin"), Text("austin")}
EntLabels == {"GPE", "DATE"}
LocationLabels == {"GPE", "LOC", "FACILITY"}
TimeLabels == {"TIME", "DATE"}

\* items of the discover response: title and address label may be missing (None);
\* opening is the openingHours entry: "open", "closed", "missing" (no
\* openingHours key) or "empty" (an empty openingHours list)
Places ==
    { [title |-> Text("a"), label |-> Text("b|c"), opening |-> "open",    lat |-> 1],
      [title |-> Text("a"), label |-> Text("b|c"), opening |-> "open",    lat |-> 2],
      [title |-> Text("a|b"), label |-> Text("c"), opening |-> "open",    lat |-> 3],
      [title |-> Text("a"), label |-> Text("c"), opening |-> "closed",  lat |-> 4],
      [title |-> None, label |-> Text("c"), opening |-> "open",    lat |-> 5],
      [title |-> Text("a"), label |-> Text("c"), opening |-> "missing", lat |-> 6],
      [title |-> Text("a"), label |-> Text("c"), opening |-> "empty",   lat |-> 7] }

RawLists == UNION { [1..n -> Places] : n \in 0..MaxResults }

\* ------------------------------------------------------------------------
\* search_best_places
\* ------------------------------------------------------------------------
\* limit=3 of the signature
DefaultLimit == 3

\* place.get("openingHours", [{}])[0].get("isOpen", False)
IsOpen(place) == place.opening = "open"

\* place.get("title", "") + "|" + place.get("address", {}).get("label", "")
UniqueKey(place) ==
    (IF place.title = None THEN << >> ELSE place.title) \o Lit.bar
    \o (IF place.label = None THEN << >> ELSE place.label)

BestPlace(place) ==
    [title |-> place.title, address |-> place.label, lat |-> place.lat]

\* the loop without the test of seen
RECURSIVE BestPlacesLoop_NoSeen(_, _, _, _, _)
BestPlacesLoop_NoSeen(results, k, seen, best, limit) ==
    IF k > Len(results) THEN best
    ELSE LET place == results[k]
         IN  IF place.opening = "empty" THEN Raised
             ELSE IF ~IsOpen(place) THEN BestPlacesLoop_NoSeen(results, k + 1, seen, best, limit)
             ELSE LET best2 == Append(best, BestPlace(place))
                  IN  IF Len(best2) = limit THEN best2
                      ELSE BestPlacesLoop_NoSeen(results, k + 1, seen, best2, limit)

\* the for loop from item k on; seen and best are the loop's seen and best_places
RECURSIVE BestPlacesLoop(_, _, _, _, _)
BestPlacesLoop(results, k, seen, best, limit) ==
    IF k > Len(results) THEN best
    ELSE LET place == results[k]
         IN  IF place.opening = "empty" THEN Raised
             ELSE IF ~IsOpen(place) THEN BestPlacesLoop(results, k + 1, seen, best, limit)
             ELSE IF UniqueKey(place) \in seen
                  THEN BestPlacesLoop(results, k + 1, seen, best, limit)
             ELSE LET best2 == Append(best, BestPlace(place))
                  IN  IF Len(best2) = limit THEN best2
                      ELSE BestPlacesLoop(results, k + 1, seen \cup {UniqueKey(place)},
                                          best2, limit)

search_best_places(results, limit) == BestPlacesLoop(results, 1, {}, << >>, limit)

\* ------------------------------------------------------------------------
\* extract_locations
\* ------------------------------------------------------------------------
Range(f) == { f[i] : i \in DOMAIN f }

\* occurrences of gazetteer names in the query, as (position, text)
Occurrences(query) ==
    { o \in [pos : 1..Len(query), text : Gazetteer] : StartsAt(query, o.pos, o.text) }

RECURSIVE ByPosition(_)
ByPosition(S) ==
    IF S = {} THEN << >>
    ELSE LET e == CHOOSE a \in S : \A b \in S : a.pos <= b.pos
         IN  << e >> \o ByPosition(S \ {e})

\* the doc.ents the tagger may produce: entities in text order, each labelled
TaggerOutputs(query) ==
    UNION { { [k \in 1..Len(ByPosition(S)) |->
                  [text |-> ByPosition(S)[k].text, label_ |-> lab[ByPosition(S)[k]]]]
              : lab \in [S -> EntLabels] }
            : S \in { T \in SUBSET Occurrences(query) :
                        /\ Cardinality(T) <= MaxEnts
                        /\ \A a, b \in T : a.pos = b.pos => a = b } }

RECURSIVE EntTexts(_, _)
EntTexts(ents, exclude) ==
    IF ents = << >> THEN << >>
    ELSE (IF Head(ents).label_ \in LocationLabels /\ Head(ents).text \notin exclude
          THEN << Head(ents).text >> ELSE << >>)
         \o EntTexts(Tail(ents), exclude)

extract_locations(doc_ents, exclude) == EntTexts(doc_ents, exclude)

\* ------------------------------------------------------------------------
\* extract_time_constraints
\* ------------------------------------------------------------------------
RECURSIVE TimeTexts(_)
TimeTexts(doc_ents) ==
    IF doc_ents = << >> THEN << >>
    ELSE (IF Head(doc_ents).label_ \in TimeLabels THEN << Head(doc_ents).text >> ELSE << >>)
         \o TimeTexts(Tail(doc_ents))

extract_time_constraints(query, doc_ents) ==
    [times |-> TimeTexts(doc_ents), durations |-> extract_durations(query)]

\* ------------------------------------------------------------------------
\* structured_output, step by step
\* ------------------------------------------------------------------------
\* the waypoints with nothing filtered out
NormalizeWaypoints_NoFilter(wps, locs) == wps

\* [w for w in waypoints if w not in locations]
RECURSIVE NormalizeWaypoints(_, _)
NormalizeWaypoints(wps, locs) ==
    IF wps = << >> THEN << >>
    ELSE (IF Head(wps) \notin Range(locs) THEN << Head(wps) >> ELSE << >>)
         \o NormalizeWaypoints(Tail(wps), locs)

\* end_coordinates without the default for an end that was not found
EndCoordinates_NoFallback(end_loc, geocode) ==
    IF geocode # Null THEN [lat |-> geocode.lat, lon |-> geocode.lon] ELSE Null

\* end_coordinates of lines 200-204
EndCoordinates(end_loc, geocode) ==
    IF Truthy(end_loc) /\ geocode = Null THEN DEFAULT_COORDINATES
    ELSE IF geocode # Null THEN [lat |-> geocode.lat, lon |-> geocode.lon]
    ELSE Null

\* the empty enhanced_waypoints dict
EmptyDict == [w \in {} |-> << >>]

VARIABLES
    batch,               \* the queries the loop runs over
    idx,                 \* position of the loop in batch
    pc,                  \* next statement of the loop / of structured_output
    query,
    intents,             \* extract_intents(query): it reads the query only
    start_location, end_location,
    start_geocode, start_coordinates, start_country_code,
    end_geocode, end_coordinates,
    ents,                \* nlp(query).ents: the tagger gives one answer per query
    locations, waypoints, unique_waypoints,
    route_info,
    enhanced_waypoints,
    wi,                  \* position of the waypoint loop in unique_waypoints
    result,              \* what structured_output returned last
    printed,             \* number of iterations of the loop that ran to their end
    route_calls,         \* get_route_info calls made for the current query
    search_calls,        \* queries passed to search_best_places for the current query
    raw_results, limit, best_places, stage   \* a single search_best_places call

extraction == << query, intents, start_location, end_location >>
geocodes == << start_geocode, start_coordinates, start_country_code,
               end_geocode, end_coordinates >>
spans == << ents, locations, waypoints, unique_waypoints >>
routing == << route_info, route_calls >>
searching == << enhanced_waypoints, wi, search_calls >>
looping == << batch, idx, result, printed >>
pipeline == << pc, extraction, geocodes, spans, routing, searching, looping >>
places == << raw_results, limit, best_places, stage >>
vars == << pipeline, places >>

PipelineInit ==
    /\ idx = 1
    /\ pc = "loop"
    /\ query = None
    /\ intents = << >>
    /\ start_location = None /\ end_location = None
    /\ start_geocode = Null /\ start_coordinates = Null /\ start_country_code = None
    /\ end_geocode = Null /\ end_coordinates = Null
    /\ ents = << >>
    /\ locations = << >> /\ waypoints = << >> /\ unique_waypoints = << >>
    /\ route_info = Null
    /\ enhanced_waypoints = EmptyDict
    /\ wi = 1
    /\ result = Null
    /\ printed = 0
    /\ route_calls = 0
    /\ search_calls = << >>

PlacesIdle ==
    /\ raw_results = << >> /\ limit = DefaultLimit /\ best_places = << >> /\ stage = "idle"

Init ==
    /\ batch \in Batches
    /\ PipelineInit
    /\ PlacesIdle

\* for q in queries: result = structured_output(q), up to line 187; the intents
\* of line 223 depend on the query only and are computed here
LoopNext ==
    /\ pc = "loop"
    /\ idx <= Len(batch)
    /\ query' = batch[idx]
    /\ intents' = extract_intents(batch[idx])
    /\ start_location' = extract_start_end_locations(batch[idx]).start
    /\ end_location' = extract_start_end_locations(batch[idx]).end
    /\ pc' = "geocode_start"
    /\ UNCHANGED << geocodes, spans, routing, searching, looping, places >>

\* an exception nothing catches: the module stops; the caller says what the
\* raising call had counted before
Raise ==
    /\ pc' = "raised"
    /\ UNCHANGED << extraction, geocodes, spans, looping, places >>

\* lines 190-197
GeocodeStart ==
    /\ pc = "geocode_start"
    /\ \/ \E g \in GeocodeResults :
            /\ start_geocode' = g
            /\ start_coordinates' =
                   IF g = Null THEN DEFAULT_COORDINATES ELSE [lat |-> g.lat, lon |-> g.lon]
            /\ start_country_code' = IF g = Null THEN DEFAULT_COUNTRY_CODE ELSE g.countryCode
            /\ pc' = "geocode_end"
            /\ UNCHANGED << extraction, end_geocode, end_coordinates, spans, routing,
                            searching, looping, places >>
       \/ Raise /\ UNCHANGED << routing, searching >>

\* lines 199-204
GeocodeEnd ==
    /\ pc = "geocode_end"
    /\ \/ \E g \in (IF Truthy(end_location) THEN GeocodeResults ELSE {Null}) :
            /\ end_geocode' = g
            /\ end_coordinates' = EndCoordinates(end_location, g)
            /\ pc' = "extract"
            /\ UNCHANGED << extraction, start_geocode, start_coordinates,
                            start_country_code, spans, routing, searching, looping, places >>
       \/ Truthy(end_location) /\ Raise /\ UNCHANGED << routing, searching >>

\* lines 207-209
Extract ==
    /\ pc = "extract"
    /\ ents' \in TaggerOutputs(query)
    /\ locations' = extract_locations(ents', {start_location, end_location})
    /\ waypoints' = extract_waypoints(query)
    /\ unique_waypoints' = NormalizeWaypoints(waypoints', locations')
    /\ pc' = "route"
    /\ UNCHANGED << extraction, geocodes, routing, searching, looping, places >>

\* line 212; get_route_info raises when the request fails or the first route
\* has no section (line 98), and the call was made then too
Route ==
    /\ pc = "route"
    /\ IF start_coordinates # Null /\ end_coordinates # Null
       THEN \/ \E r \in RouteResults :
                 /\ route_info' = r
                 /\ route_calls' = route_calls + 1
                 /\ pc' = "search"
                 /\ UNCHANGED << extraction, geocodes, spans, searching, looping, places >>
            \/ /\ Raise
               /\ route_calls' = route_calls + 1
               /\ UNCHANGED << route_info, searching >>
       ELSE /\ route_info' = Null
            /\ pc' = "search"
            /\ UNCHANGED << extraction, geocodes, spans, route_calls, searching,
                            looping, places >>

\* the discover responses a waypoint search may receive: nothing, one open
\* place, one place that is closed, one place with an empty openingHours list
SearchResponses ==
    { << >>,
      << [title |-> Text("a"), label |-> Text("b|c"), opening |-> "open", lat |-> 1] >>,
      << [title |-> Text("a"), label |-> Text("c"), opening |-> "closed", lat |-> 4] >>,
      << [title |-> Text("a"), label |-> Text("c"), opening |-> "empty", lat |-> 7] >> }

\* search_best_places was called with wp and raised: the request failed, or
\* line 58 read the first element of an empty openingHours list
SearchRaises(wp) ==
    /\ Raise
    /\ search_calls' = Append(search_calls, wp)
    /\ UNCHANGED << enhanced_waypoints, wi, routing >>

\* lines 216-220, one waypoint per step
SearchWaypoint ==
    /\ pc = "search"
    /\ start_coordinates # Null
    /\ wi <= Len(unique_waypoints)
    /\ \/ \E r \in SearchResponses :
            LET wp == unique_waypoints[wi]
                best == search_best_places(r, DefaultLimit)
            IN  IF best = Raised THEN SearchRaises(wp)
                ELSE /\ search_calls' = Append(search_calls, wp)
                     /\ enhanced_waypoints' =
                            IF best # << >>
                            THEN [w \in DOMAIN enhanced_waypoints \cup {wp} |->
                                      IF w = wp THEN best ELSE enhanced_waypoints[w]]
                            ELSE enhanced_waypoints
                     /\ wi' = wi + 1
                     /\ pc' = "search"
                     /\ UNCHANGED << extraction, geocodes, spans, routing, looping,
                                     places >>
       \/ SearchRaises(unique_waypoints[wi])

\* lines 222-233: the dict structured_output returns
Return ==
    /\ pc = "search"
    /\ start_coordinates = Null \/ wi > Len(unique_waypoints)
    /\ result' = [intents |-> intents,
                  start_location |-> start_location,
                  start_coordinates |-> start_coordinates,
                  end_location |-> end_location,
                  end_coordinates |-> end_coordinates,
                  waypoints |-> unique_waypoints,
                  enhanced_waypoints |-> enhanced_waypoints,
                  distance_constraints |-> extract_distance_constraints(query),
                  time_constraints |-> extract_time_constraints(query, ents),
                  route_info |-> route_info]
    /\ pc' = "print"
    /\ UNCHANGED << batch, idx, printed, extraction, geocodes, spans, routing,
                    searching, places >>

\* the iteration of the loop is over: the next query, with a fresh frame
PrintDone ==
    /\ printed' = printed + 1
    /\ idx' = idx + 1
    /\ result' = Null
    /\ query' = None
    /\ intents' = << >>
    /\ start_location' = None /\ end_location' = None
    /\ start_geocode' = Null /\ start_coordinates' = Null /\ start_country_code' = None
    /\ end_geocode' = Null /\ end_coordinates' = Null
    /\ ents' = << >>
    /\ locations' = << >> /\ waypoints' = << >> /\ unique_waypoints' = << >>
    /\ route_info' = Null /\ route_calls' = 0
    /\ enhanced_waypoints' = EmptyDict /\ wi' = 1 /\ search_calls' = << >>
    /\ pc' = "loop"
    /\ UNCHANGED << batch, places >>

\* lines 267-280: a route summary (any dict that is not empty) is divided,
\* decoded and drawn: None cannot be divided (268, 269) nor decoded (272), and
\* a polyline of no point has no first point for the map (280)
PrintRaises(route) ==
    /\ route # Null
    /\ \/ route.distance_meters = NoneNumber
       \/ route.duration_seconds = NoneNumber
       \/ route.polyline = None
       \/ DecodedPoints(route.polyline) = 0

\* lines 261-301: the loop body prints the result, or raises on the way; after
\* it neither the result nor the frame of the call is read again
PrintResult ==
    /\ pc = "print"
    /\ IF PrintRaises(result.route_info)
       THEN Raise /\ UNCHANGED << routing, searching >>
       ELSE PrintDone

\* the loop is over
Finish ==
    /\ pc = "loop"
    /\ idx > Len(batch)
    /\ pc' = "done"
    /\ UNCHANGED << extraction, geocodes, spans, routing, searching, looping, places >>

Next ==
    \/ LoopNext
    \/ GeocodeStart
    \/ GeocodeEnd
    \/ Extract
    \/ Route
    \/ SearchWaypoint
    \/ Return
    \/ PrintResult
    \/ Finish

Spec == Init /\ [][Next]_vars

\* ------------------------------------------------------------------------
\* One call of search_best_places on any response and any limit
\* ------------------------------------------------------------------------
PlacesInit ==
    /\ batch = queries
    /\ PipelineInit
    /\ raw_results \in RawLists
    /\ limit \in 0..MaxLimit
    /\ best_places = << >>
    /\ stage = "call"

CallSearchBestPlaces ==
    /\ stage = "call"
    /\ best_places' = search_best_places(raw_results, limit)
    /\ stage' = "returned"
    /\ UNCHANGED << pipeline, raw_results, limit >>

PlacesNext == CallSearchBestPlaces

PlacesSpec == PlacesInit /\ [][PlacesNext]_vars

\* ------------------------------------------------------------------------
\* Properties
\* ------------------------------------------------------------------------
NoDuplicates(seq) == \A i, j \in DOMAIN seq : i # j => seq[i] # seq[j]

RECURSIVE IsSubseq(_, _)
IsSubseq(a, b) ==
    IF a = << >> THEN TRUE
    ELSE IF b = << >> THEN FALSE
    ELSE IF Head(a) = Head(b) THEN IsSubseq(Tail(a), Tail(b))
    ELSE IsSubseq(a, Tail(b))

Assembled == pc = "print"

\* C1: in the assembled result the start text and the end text appear neither
\* in the waypoints nor in the generic locations.
C1_StartEndNeverListed ==
    Assembled =>
        /\ result.start_location \notin Range(result.waypoints) \cup Range(locations)
        /\ result.end_location \notin Range(result.waypoints) \cup Range(locations)

\* C2: after normalization unique_waypoints and the generic locations have no
\* element in common, and unique_waypoints keeps the order of the extracted
\* waypoints.
C2_NormalizedDisjointOrdered ==
    pc \in {"route", "search", "print"} =>
        /\ Range(unique_waypoints) \cap Range(locations) = {}
        /\ IsSubseq(unique_waypoints, waypoints)

C2_Witness ==
    /\ pc = "route"
    /\ Len(unique_waypoints) >= 1
    /\ Len(unique_waypoints) < Len(waypoints)

\* C3: the waypoints of the assembled result contain no string twice, and no
\* waypoint is searched for more than once.
C3_WaypointsUnique ==
    Assembled => NoDuplicates(result.waypoints) /\ NoDuplicates(search_calls)

\* "from X to Y<stop>" read as one pattern: X ends at the first " to " after
\* "from ", Y starts after that same "to" and ends at the first stop token
FromToLens(q, i) ==
    IF StartsAt(q, i, Lit.from_sp)
    THEN { n \in 1..ClassRun(q, i + 5, WordSpace) : StartsAt(q, i + 5 + n, Lit.sp_to_sp) }
    ELSE {}

FromToPositions(q) ==
    { i \in 1..Len(q) :
        /\ FromToLens(q, i) # {}
        /\ \E m \in 1..ClassRun(q, i + 9 + Least(FromToLens(q, i)), WordSpace) :
               StopAt(q, i + 9 + Least(FromToLens(q, i)) + m) }

FromToExpected(q) ==
    LET i == Least(FromToPositions(q))
        n == Least(FromToLens(q, i))
        j == i + 9 + n
        m == Least({ k \in 1..ClassRun(q, j, WordSpace) : StopAt(q, j + k) })
    IN  [start |-> strip(SubSeq(q, i + 5, i + 4 + n)),
         end |-> strip(SubSeq(q, j, j + m - 1))]

\* C4: for a query containing "from X to Y" followed by a stop token the
\* extracted start is X and the extracted end is Y, the "to" before Y being
\* the one that follows X.
C4_FromToSameTo ==
    (pc = "geocode_start" /\ FromToPositions(lower(query)) # {}) =>
        /\ start_location = FromToExpected(lower(query)).start
        /\ end_location = FromToExpected(lower(query)).end

\* C5: for a query without a "from ... to" pattern the start is the sentinel
\* "current location" and the end is None.
C5_NoFromToDefaults ==
    (pc = "geocode_start" /\ StartMatchPositions(lower(query)) = {}) =>
        /\ start_location = Lit.current_location
        /\ end_location = None

RouteDecided == pc \in {"search", "print"}

\* C6 as stated: get_route_info is called, once, exactly when both geocodes
\* returned coordinates; otherwise it is not called and route_info is None.
C6_RouteIffBothGeocoded ==
    /\ route_calls <= 1
    /\ RouteDecided =>
          /\ route_calls = 1 <=> (start_geocode # Null /\ end_geocode # Null)
          /\ route_calls = 0 => route_info = Null

\* C6 amended: get_route_info is never called more than once for a query nor
\* without an extracted (non-empty) end location, and once structured_output
\* is past line 212 it was called, once, exactly when an end location was
\* extracted, whatever the two geocodes returned: a geocode that found nothing
\* is replaced by the default coordinates and the route is still requested.
\* Without an end location it is not called and route_info is None.
C6_RouteIffEndExtracted ==
    /\ route_calls <= 1
    /\ route_calls = 1 => Truthy(end_location)
    /\ RouteDecided =>
          /\ route_calls = 1 <=> Truthy(end_location)
          /\ route_calls = 0 => route_info = Null

C6_Witness ==
    /\ RouteDecided
    /\ route_calls = 1
    /\ start_geocode = Null
    /\ end_geocode = Null
    /\ end_coordinates = DEFAULT_COORDINATES

\* C7: whatever the collaborators answer, every query of the batch reaches
\* the assembled result: when the program has stopped, structured_output has
\* returned a result for each query of the batch (the ones whose iteration
\* ended, and the one still held when the printing raised).
C7_EveryQueryAssembled ==
    pc \in {"done", "raised"} =>
        printed + (IF result # Null THEN 1 ELSE 0) = Len(batch)

\* C8: the first test query yields intents containing Basic Navigation and
\* Multi-Stop, start "dallas", end "austin" and the waypoints "a walmart",
\* "a coffee shop" in this order.
C8_DallasAustinScenario ==
    (Assembled /\ query = queries[1]) =>
        /\ {"Basic Navigation", "Multi-Stop"} \subseteq Range(result.intents)
        /\ result.start_location = Text("dallas")
        /\ result.end_location = Text("austin")
        /\ result.waypoints = << Text("a walmart"), Text("a coffee shop") >>

Returned == stage = "returned" /\ best_places # Raised

\* C9: no two candidates kept by search_best_places have the same title and
\* the same address label.
C9_NoDuplicateSignature ==
    Returned =>
        \A i, j \in DOMAIN best_places :
            i # j => ~(/\ best_places[i].title = best_places[j].title
                       /\ best_places[i].address = best_places[j].address)

C9_Witness ==
    /\ Returned
    /\ Len(best_places) >= 2
    /\ \E i, j \in DOMAIN raw_results :
          /\ i < j
          /\ IsOpen(raw_results[i]) /\ IsOpen(raw_results[j])
          /\ raw_results[i].title = raw_results[j].title
          /\ raw_results[i].label = raw_results[j].label

\* the open candidates whose (title, address label) pair no earlier open
\* candidate has, in the order of the response
RECURSIVE OpenDistinct(_, _)
OpenDistinct(results, sigs) ==
    IF results = << >> THEN << >>
    ELSE LET place == Head(results)
             sig == << place.title, place.label >>
         IN  IF IsOpen(place) /\ sig \notin sigs
             THEN << BestPlace(place) >> \o OpenDistinct(Tail(results), sigs \cup {sig})
             ELSE OpenDistinct(Tail(results), sigs)

\* C10: for every limit K >= 0 search_best_places returns the first
\* min(K, n) of the n open, signature-distinct candidates, so at most K, and
\* never a candidate that is not open.
C10_FirstKOpenDistinct ==
    Returned =>
        LET want == OpenDistinct(raw_results, {})
            n == IF Len(want) < limit THEN Len(want) ELSE limit
        IN  /\ Len(best_places) <= limit
            /\ best_places = SubSeq(want, 1, n)
====
